---------------------------- MODULE Spec2Model ----------------------------
(***************************************************************************)
(* Apex-Money (src/app.py): a Flask + SQLAlchemy personal finance manager. *)
(* The model holds the three tables the route handlers write (categories,  *)
(* transactions, budgets), one action per route handler, the constraints   *)
(* the table definitions declare (UNIQUE, NOT NULL, FOREIGN KEY,           *)
(* Numeric(10, 2)) applied when a handler commits, and the report          *)
(* computations as operators over the tables.                              *)
(*                                                                         *)
(* Dates are triples <<year, month, day>>; money is an integer number of   *)
(* cents once stored and an integer number of thousandths ("mills") while  *)
(* it is a submitted Decimal, so that the column's rounding to two         *)
(* fractional digits is a real conversion.  Names are sequences of         *)
(* one-character strings so that str.strip() is computed.                  *)
(***************************************************************************)
EXTENDS Integers, Sequences, FiniteSets, TLC

---------------------------------------------------------------------------
(* Bounds of the model *)

\* ids the autoincrement primary key of each table may hand out
MaxCategories == 2
MaxTransactions == 2
MaxBudgets == 2

---------------------------------------------------------------------------
(* datetime.date *)

MINYEAR == 1
MAXYEAR == 9999

IsLeap(y) == (y % 4 = 0) /\ ((y % 100 # 0) \/ (y % 400 = 0))

DaysInMonth(y, m) ==
    IF m = 2 THEN (IF IsLeap(y) THEN 29 ELSE 28)
    ELSE IF m \in {4, 6, 9, 11} THEN 30 ELSE 31

\* date(y, m, d) raises ValueError unless this holds
ValidDate(y, m, d) ==
    /\ y \in MINYEAR..MAXYEAR
    /\ m \in 1..12
    /\ d \in 1..DaysInMonth(y, m)

DateLT(a, b) ==
    \/ a[1] < b[1]
    \/ a[1] = b[1] /\ a[2] < b[2]
    \/ a[1] = b[1] /\ a[2] = b[2] /\ a[3] < b[3]

DateLE(a, b) == a = b \/ DateLT(a, b)

NextDay(d) ==
    IF d[3] < DaysInMonth(d[1], d[2]) THEN <<d[1], d[2], d[3] + 1>>
    ELSE IF d[2] < 12 THEN <<d[1], d[2] + 1, 1>>
    ELSE <<d[1] + 1, 1, 1>>

PrevDay(d) ==
    IF d[3] > 1 THEN <<d[1], d[2], d[3] - 1>>
    ELSE IF d[2] > 1 THEN <<d[1], d[2] - 1, DaysInMonth(d[1], d[2] - 1)>>
    ELSE <<d[1] - 1, 12, 31>>

\* d + timedelta(days=n), n >= 0; the result may leave MINYEAR..MAXYEAR, which
\* the caller tests with InRange (Python raises OverflowError there)
RECURSIVE AddDays(_, _)
AddDays(d, n) == IF n = 0 THEN d ELSE AddDays(NextDay(d), n - 1)

InRange(d) == d[1] \in MINYEAR..MAXYEAR

\* d.replace(day=1)
ReplaceDay1(d) == <<d[1], d[2], 1>>

---------------------------------------------------------------------------
(* str.strip() *)

Blank == " "

RECURSIVE LStrip(_)
LStrip(s) == IF s # <<>> /\ Head(s) = Blank THEN LStrip(Tail(s)) ELSE s

RECURSIVE RStrip(_)
RStrip(s) ==
    IF s # <<>> /\ s[Len(s)] = Blank THEN RStrip(SubSeq(s, 1, Len(s) - 1)) ELSE s

Strip(s) == RStrip(LStrip(s))

---------------------------------------------------------------------------
(* Decimal(request.form['amount']) and a Numeric(10, 2) column *)

\* what a form carries as an amount: text, which Decimal(...) turns into a number
\* of thousandths or refuses
Number(n) == [text |-> "number", mills |-> n]
Malformed == [text |-> "malformed", mills |-> 0]

\* Decimal(...) raises on text that is no number
Parses(a) == a.text = "number"

\* a test that lets an amount of zero through: `if amount < 0`
AmountRejected_ZeroAllowed(a) == a < 0

\* `if not amount or amount <= 0`: the handler's own test, on the Decimal
AmountRejected(a) == a = 0 \/ a <= 0

\* the column keeps two fractional digits: the database rounds half away from
\* zero (mills -> cents)
Quantize(a) == IF a >= 0 THEN (a + 5) \div 10 ELSE -((-a + 5) \div 10)

\* Numeric(10, 2): at most 8 integer digits, else the INSERT/UPDATE fails
NumericFits(cents) == cents \div 100 < 100000000 /\ cents \div 100 > -100000000

---------------------------------------------------------------------------
(* The store *)

\* registered users (users.id); registration is not modelled
Users == {1, 2}

NoDate == <<>>

VARIABLES
    categories,     \* categories.id -> [user_id, name, type]
    transactions,   \* transactions.id -> [user_id, amount, date, type, category_id]
    budgets,        \* budgets.id -> [user_id, category_name, amount, start_date, end_date]
    nextCategory,   \* the next id each table's autoincrement hands out
    nextTransaction,
    nextBudget,
    pending,        \* the write of a handler that has validated and not yet committed
    response,       \* the last finished request: whose it was and how it ended
    report,         \* what the last report request handed to its template
    recordedName    \* history: transactions.id -> the name its category had when the
                    \* transaction's category was last written

store == <<categories, transactions, budgets, nextCategory, nextTransaction, nextBudget>>

vars == <<categories, transactions, budgets, nextCategory, nextTransaction, nextBudget,
          pending, response, report, recordedName>>

NoPending == [user |-> 0, kind |-> "none"]
NoReport == [view |-> "none"]

Init ==
    /\ categories = <<>>
    /\ transactions = <<>>
    /\ budgets = <<>>
    /\ nextCategory = 1
    /\ nextTransaction = 1
    /\ nextBudget = 1
    /\ pending = NoPending
    /\ response = [user |-> 0, status |-> "none"]
    /\ report = NoReport
    /\ recordedName = <<>>

\* f with key k removed / with k bound to v
Without(f, k) == [x \in DOMAIN f \ {k} |-> f[x]]
With(f, k, v) == [x \in DOMAIN f \cup {k} |-> IF x = k THEN v ELSE f[x]]

---------------------------------------------------------------------------
(* Table constraints, as the database applies them to a committed write *)

\* a categories table without the unique constraint
CategoryUnique_Unconstrained(cats, id, r) == TRUE

\* UniqueConstraint('user_id', 'name') on categories: row r may be stored under id
CategoryUnique(cats, id, r) ==
    \A c \in DOMAIN cats \ {id} :
        ~(cats[c].user_id = r.user_id /\ cats[c].name = r.name)

\* a budgets table without the unique constraint
BudgetUnique_Unconstrained(buds, id, r) == TRUE

\* UniqueConstraint('user_id', 'category_name', 'start_date') on budgets
BudgetUnique(buds, id, r) ==
    \A b \in DOMAIN buds \ {id} :
        ~(/\ buds[b].user_id = r.user_id
          /\ buds[b].category_name = r.category_name
          /\ buds[b].start_date = r.start_date)

\* transactions.category_id: ForeignKey('categories.id'), nullable=False
CategoryFK(cats, r) == r.category_id \in DOMAIN cats

\* a transactions table whose category_id may be left without its category
CategoryDeletable_Always(txs, id) == TRUE

\* Deleting a Category: its `transactions` relationship has no delete cascade, so
\* the session sets each child's category_id to NULL, which nullable=False
\* refuses; the DELETE goes through only when no transaction references the row
CategoryDeletable(txs, id) == \A t \in DOMAIN txs : txs[t].category_id # id

---------------------------------------------------------------------------
(* db.session.commit(): one write reaches the tables, or fails as a whole *)

\* a request of user u ends: its status, and no report in its body
Finish(u, r) == response' = [user |-> u, status |-> r] /\ report' = NoReport

\* How a request ends: "ok" (the success flash and a redirect); "redirect" (sent
\* elsewhere before the form is read); "not_found" (first_or_404); the form
\* rendered again with a flash: "empty_name", "exists", "not_positive",
\* "invalid_category", "end_before_start", "invalid_format" (except ValueError),
\* "error_..." (except Exception: a rollback, and the exception's text in the
\* flash); "crash_..." (an exception nothing catches: a 500).
Failure(onError, exception) ==
    CASE onError = "error" /\ exception = "IntegrityError" -> "error_integrity"
      [] onError = "error" /\ exception = "StaleDataError" -> "error_stale"
      [] onError = "error" /\ exception = "DataError" -> "error_data"
      [] onError = "error" /\ exception = "InvalidOperation" -> "error_decimal"
      [] onError = "crash" /\ exception = "IntegrityError" -> "crash_integrity"
      [] onError = "crash" /\ exception = "StaleDataError" -> "crash_stale"
      [] onError = "crash" /\ exception = "DataError" -> "crash_data"

\* the commit raises: nothing is stored. w.onError is how the handler ends then:
\* "error" where the commit sits inside try/except Exception, "crash" elsewhere
CommitFails(w, exception) ==
    Finish(w.user, Failure(w.onError, exception))
    /\ UNCHANGED <<store, recordedName>>

\* the unit of work finds nothing to write
CommitNothing(w) == Finish(w.user, "ok") /\ UNCHANGED <<store, recordedName>>

\* an UPDATE carries only the attributes whose value differs from the one the
\* handler loaded (old); the others keep what the row holds now (cur)
MergeCategory(cur, old, new) ==
    [user_id |-> cur.user_id,
     name    |-> IF new.name # old.name THEN new.name ELSE cur.name,
     type    |-> IF new.type # old.type THEN new.type ELSE cur.type]

\* new.amount is the submitted Decimal (mills), old.amount and cur.amount are
\* stored cents
MergeTransaction(cur, old, new) ==
    [user_id     |-> cur.user_id,
     type        |-> cur.type,
     amount      |-> IF new.amount # old.amount * 10 THEN Quantize(new.amount)
                     ELSE cur.amount,
     date        |-> IF new.date # old.date THEN new.date ELSE cur.date,
     category_id |-> IF new.category_id # old.category_id THEN new.category_id
                     ELSE cur.category_id]

MergeBudget(cur, old, new) ==
    [user_id       |-> cur.user_id,
     category_name |-> IF new.category_name # old.category_name
                       THEN new.category_name ELSE cur.category_name,
     amount        |-> IF new.amount # old.amount * 10 THEN Quantize(new.amount)
                       ELSE cur.amount,
     start_date    |-> IF new.start_date # old.start_date THEN new.start_date
                       ELSE cur.start_date,
     end_date      |-> IF new.end_date # old.end_date THEN new.end_date
                       ELSE cur.end_date]

InsertCategory(w) ==
    /\ nextCategory <= MaxCategories
    /\ IF CategoryUnique(categories, nextCategory, w.row)
       THEN /\ categories' = With(categories, nextCategory, w.row)
            /\ nextCategory' = nextCategory + 1
            /\ Finish(w.user, "ok")
            /\ UNCHANGED <<transactions, budgets, nextTransaction, nextBudget,
                           recordedName>>
       ELSE CommitFails(w, "IntegrityError")

UpdateCategory(w) ==
    IF w.new = w.old THEN CommitNothing(w)
    ELSE IF w.id \notin DOMAIN categories THEN CommitFails(w, "StaleDataError")
    ELSE LET row == MergeCategory(categories[w.id], w.old, w.new) IN
         IF CategoryUnique(categories, w.id, row)
         THEN /\ categories' = With(categories, w.id, row)
              /\ Finish(w.user, "ok")
              /\ UNCHANGED <<transactions, budgets, nextCategory, nextTransaction,
                             nextBudget, recordedName>>
         ELSE CommitFails(w, "IntegrityError")

\* a DELETE that takes the budgets named after the category with it
DeleteCategoryRow_WithBudgets(w) ==
    /\ w.id \in DOMAIN categories
    /\ categories' = Without(categories, w.id)
    /\ budgets' = [b \in {x \in DOMAIN budgets :
                            budgets[x].category_name # categories[w.id].name}
                     |-> budgets[b]]
    /\ Finish(w.user, "ok")
    /\ UNCHANGED <<transactions, nextCategory, nextTransaction, nextBudget,
                   recordedName>>

DeleteCategoryRow(w) ==
    IF w.id \notin DOMAIN categories
    THEN \* the DELETE matches no row: a warning or StaleDataError, by dialect
         /\ \E r \in {"ok", Failure(w.onError, "StaleDataError")} :
                response' = [user |-> w.user, status |-> r]
         /\ report' = NoReport
         /\ UNCHANGED <<store, recordedName>>
    ELSE IF CategoryDeletable(transactions, w.id)
         THEN /\ categories' = Without(categories, w.id)
              /\ Finish(w.user, "ok")
              /\ UNCHANGED <<transactions, budgets, nextCategory, nextTransaction,
                             nextBudget, recordedName>>
         ELSE CommitFails(w, "IntegrityError")

InsertTransaction(w) ==
    /\ nextTransaction <= MaxTransactions
    /\ IF ~CategoryFK(categories, w.row) THEN CommitFails(w, "IntegrityError")
       ELSE IF ~NumericFits(Quantize(w.row.amount)) THEN CommitFails(w, "DataError")
       ELSE /\ transactions' = With(transactions, nextTransaction,
                                    [w.row EXCEPT !.amount = Quantize(w.row.amount)])
            /\ recordedName' = With(recordedName, nextTransaction,
                                    categories[w.row.category_id].name)
            /\ nextTransaction' = nextTransaction + 1
            /\ Finish(w.user, "ok")
            /\ UNCHANGED <<categories, budgets, nextCategory, nextBudget>>

UpdateTransaction(w) ==
    IF /\ w.new.amount = w.old.amount * 10
       /\ w.new.date = w.old.date
       /\ w.new.category_id = w.old.category_id
    THEN CommitNothing(w)
    ELSE IF w.id \notin DOMAIN transactions THEN CommitFails(w, "StaleDataError")
    ELSE LET row == MergeTransaction(transactions[w.id], w.old, w.new) IN
         IF ~CategoryFK(categories, row) THEN CommitFails(w, "IntegrityError")
         ELSE IF ~NumericFits(row.amount) THEN CommitFails(w, "DataError")
         ELSE /\ transactions' = With(transactions, w.id, row)
              /\ recordedName' =
                    IF w.new.category_id # w.old.category_id
                    THEN With(recordedName, w.id, categories[row.category_id].name)
                    ELSE recordedName
              /\ Finish(w.user, "ok")
              /\ UNCHANGED <<categories, budgets, nextCategory, nextTransaction,
                             nextBudget>>

DeleteTransactionRow(w) ==
    IF w.id \notin DOMAIN transactions
    THEN /\ \E r \in {"ok", Failure(w.onError, "StaleDataError")} :
                response' = [user |-> w.user, status |-> r]
         /\ report' = NoReport
         /\ UNCHANGED <<store, recordedName>>
    ELSE /\ transactions' = Without(transactions, w.id)
         /\ recordedName' = Without(recordedName, w.id)
         /\ Finish(w.user, "ok")
         /\ UNCHANGED <<categories, budgets, nextCategory, nextTransaction,
                        nextBudget>>

InsertBudget(w) ==
    /\ nextBudget <= MaxBudgets
    /\ IF ~NumericFits(Quantize(w.row.amount)) THEN CommitFails(w, "DataError")
       ELSE IF ~BudgetUnique(budgets, nextBudget, w.row)
       THEN CommitFails(w, "IntegrityError")
       ELSE /\ budgets' = With(budgets, nextBudget,
                               [w.row EXCEPT !.amount = Quantize(w.row.amount)])
            /\ nextBudget' = nextBudget + 1
            /\ Finish(w.user, "ok")
            /\ UNCHANGED <<categories, transactions, nextCategory, nextTransaction,
                           recordedName>>

UpdateBudget(w) ==
    IF /\ w.new.category_name = w.old.category_name
       /\ w.new.amount = w.old.amount * 10
       /\ w.new.start_date = w.old.start_date
       /\ w.new.end_date = w.old.end_date
    THEN CommitNothing(w)
    ELSE IF w.id \notin DOMAIN budgets THEN CommitFails(w, "StaleDataError")
    ELSE LET row == MergeBudget(budgets[w.id], w.old, w.new) IN
         IF ~NumericFits(row.amount) THEN CommitFails(w, "DataError")
         ELSE IF ~BudgetUnique(budgets, w.id, row)
         THEN CommitFails(w, "IntegrityError")
         ELSE /\ budgets' = With(budgets, w.id, row)
              /\ Finish(w.user, "ok")
              /\ UNCHANGED <<categories, transactions, nextCategory, nextTransaction,
                             nextBudget, recordedName>>

DeleteBudgetRow(w) ==
    IF w.id \notin DOMAIN budgets
    THEN /\ \E r \in {"ok", Failure(w.onError, "StaleDataError")} :
                response' = [user |-> w.user, status |-> r]
         /\ report' = NoReport
         /\ UNCHANGED <<store, recordedName>>
    ELSE /\ budgets' = Without(budgets, w.id)
         /\ Finish(w.user, "ok")
         /\ UNCHANGED <<categories, transactions, nextCategory, nextTransaction,
                        nextBudget, recordedName>>

DbApply(w) ==
    CASE w.kind = "insert_category"    -> InsertCategory(w)
      [] w.kind = "update_category"    -> UpdateCategory(w)
      [] w.kind = "delete_category"    -> DeleteCategoryRow(w)
      [] w.kind = "insert_transaction" -> InsertTransaction(w)
      [] w.kind = "update_transaction" -> UpdateTransaction(w)
      [] w.kind = "delete_transaction" -> DeleteTransactionRow(w)
      [] w.kind = "insert_budget"      -> InsertBudget(w)
      [] w.kind = "update_budget"      -> UpdateBudget(w)
      [] w.kind = "delete_budget"      -> DeleteBudgetRow(w)

\* A handler that has validated reaches its commit: at once (the whole handler
\* runs without another request in between), or, with susp, after other requests
\* have run (the handler is suspended between its queries and its commit). One
\* suspended handler and the handlers that run meanwhile give every interleaving
\* of two requests.
Submit(w, susp) ==
    IF susp
    THEN /\ pending = NoPending
         /\ pending' = w
         /\ UNCHANGED <<store, response, report, recordedName>>
    ELSE DbApply(w) /\ UNCHANGED pending

\* the suspended handler commits
Commit ==
    /\ pending # NoPending
    /\ DbApply(pending)
    /\ pending' = NoPending

\* a handler ends before any write
Respond(u, r) == Finish(u, r) /\ UNCHANGED <<store, pending, recordedName>>

---------------------------------------------------------------------------
(* Category routes *)

\* a lookup by id alone: Category.query.filter_by(id=category_id)
OwnCategory_AnyOwner(u, id) == id \in DOMAIN categories

\* Category.query.filter_by(id=category_id, user_id=current_user.id).first_or_404()
OwnCategory(u, id) == id \in DOMAIN categories /\ categories[id].user_id = u

\* add_category: the query for a category of the user with this name
CategoryNameTaken(u, name) ==
    \E c \in DOMAIN categories :
        categories[c].user_id = u /\ categories[c].name = name

\* edit_category: the same query, with Category.id != category_id
CategoryNameTakenByOther(u, name, id) ==
    \E c \in DOMAIN categories :
        categories[c].user_id = u /\ categories[c].name = name /\ c # id

\* POST /categories/add
AddCategory(u, rawName, type, susp) ==
    LET name == Strip(rawName) IN
    IF name = <<>> THEN Respond(u, "empty_name")
    ELSE IF CategoryNameTaken(u, name) THEN Respond(u, "exists")
    ELSE Submit([user |-> u, kind |-> "insert_category",
                 row |-> [user_id |-> u, name |-> name, type |-> type],
                 onError |-> "crash"], susp)

\* POST /categories/edit/<category_id>
EditCategory(u, id, rawName, type, susp) ==
    LET name == Strip(rawName) IN
    IF ~OwnCategory(u, id) THEN Respond(u, "not_found")
    ELSE IF name = <<>> THEN Respond(u, "empty_name")
    ELSE IF CategoryNameTakenByOther(u, name, id) THEN Respond(u, "exists")
    ELSE Submit([user |-> u, kind |-> "update_category", id |-> id,
                 old |-> categories[id],
                 new |-> [user_id |-> u, name |-> name, type |-> type],
                 onError |-> "crash"], susp)

\* POST /categories/delete/<category_id>
DeleteCategory(u, id, susp) ==
    IF ~OwnCategory(u, id) THEN Respond(u, "not_found")
    ELSE Submit([user |-> u, kind |-> "delete_category", id |-> id, onError |-> "crash"], susp)

---------------------------------------------------------------------------
(* Transaction routes *)

\* Transaction.query.filter_by(id=transaction_id, user_id=current_user.id).first_or_404()
OwnTransaction(u, id) == id \in DOMAIN transactions /\ transactions[id].user_id = u

\* Category.query.filter_by(user_id=current_user.id, type=...).all() is not empty
HasCategoryOfType(u, type) ==
    \E c \in DOMAIN categories :
        categories[c].user_id = u /\ categories[c].type = type

\* Category.query.filter_by(id=category_id, user_id=current_user.id, type=...).first()
CategoryFor(u, id, type) ==
    /\ id \in DOMAIN categories
    /\ categories[id].user_id = u
    /\ categories[id].type = type

\* datetime.strptime(s, '%Y-%m-%d') succeeds
ParsesDate(d) == ValidDate(d[1], d[2], d[3])

\* POST /transactions/add/<transaction_type>
AddTransaction(u, type, amount, date, categoryId, susp) ==
    IF type \notin {"income", "expense"} THEN Respond(u, "redirect")
    ELSE IF ~HasCategoryOfType(u, type) THEN Respond(u, "redirect")
    ELSE IF ~Parses(amount) THEN Respond(u, "error_decimal")
    ELSE IF AmountRejected(amount.mills) THEN Respond(u, "not_positive")
    ELSE IF ~ParsesDate(date) THEN Respond(u, "invalid_format")
    ELSE IF ~CategoryFor(u, categoryId, type) THEN Respond(u, "invalid_category")
    ELSE Submit([user |-> u, kind |-> "insert_transaction",
                 row |-> [user_id |-> u, amount |-> amount.mills, date |-> date,
                          type |-> type, category_id |-> categoryId],
                 onError |-> "error"], susp)

\* POST /transactions/edit/<transaction_id>
EditTransaction(u, id, amount, date, categoryId, susp) ==
    IF ~OwnTransaction(u, id) THEN Respond(u, "not_found")
    ELSE IF ~Parses(amount) THEN Respond(u, "error_decimal")
    ELSE IF AmountRejected(amount.mills) THEN Respond(u, "not_positive")
    ELSE IF ~ParsesDate(date) THEN Respond(u, "invalid_format")
    ELSE IF ~CategoryFor(u, categoryId, transactions[id].type) THEN Respond(u, "invalid_category")
    ELSE Submit([user |-> u, kind |-> "update_transaction", id |-> id,
                 old |-> transactions[id],
                 new |-> [amount |-> amount.mills, date |-> date,
                          category_id |-> categoryId],
                 onError |-> "error"], susp)

\* POST /transactions/delete/<transaction_id>
DeleteTransaction(u, id, susp) ==
    IF ~OwnTransaction(u, id) THEN Respond(u, "not_found")
    ELSE Submit([user |-> u, kind |-> "delete_transaction", id |-> id, onError |-> "crash"], susp)

---------------------------------------------------------------------------
(* Budget routes *)

\* Budget.query.filter_by(id=budget_id, user_id=current_user.id).first_or_404()
OwnBudget(u, id) == id \in DOMAIN budgets /\ budgets[id].user_id = u

\* add_budget: the query for a budget of the user with this name and start date
BudgetKeyTaken(u, name, start) ==
    \E b \in DOMAIN budgets :
        /\ budgets[b].user_id = u
        /\ budgets[b].category_name = name
        /\ budgets[b].start_date = start

\* edit_budget: the same query, with Budget.id != budget_id
BudgetKeyTakenByOther(u, name, start, id) ==
    \E b \in DOMAIN budgets :
        /\ budgets[b].user_id = u
        /\ budgets[b].category_name = name
        /\ budgets[b].start_date = start
        /\ b # id

\* a form that does not compare the two dates
EndBeforeStart_Unchecked(start, end) == FALSE

\* `if end_date and start_date > end_date`
EndBeforeStart(start, end) == end # NoDate /\ DateLT(end, start)

\* the validation add_budget and edit_budget share, in the code's order: "pass",
\* or the flash the form is rendered with. end is NoDate when the form's end_date
\* is empty
BudgetForm(rawName, amount, start, end) ==
    IF ~Parses(amount) THEN "error_decimal"
    ELSE IF Strip(rawName) = <<>> THEN "empty_name"
    ELSE IF AmountRejected(amount.mills) THEN "not_positive"
    ELSE IF ~ParsesDate(start) THEN "invalid_format"
    ELSE IF end # NoDate /\ ~ParsesDate(end) THEN "invalid_format"
    ELSE IF EndBeforeStart(start, end) THEN "end_before_start"
    ELSE "pass"

\* POST /budgets/add
AddBudget(u, rawName, amount, start, end, susp) ==
    LET name == Strip(rawName) IN
    IF ~HasCategoryOfType(u, "expense") THEN Respond(u, "redirect")
    ELSE IF BudgetForm(rawName, amount, start, end) # "pass"
         THEN Respond(u, BudgetForm(rawName, amount, start, end))
    ELSE IF BudgetKeyTaken(u, name, start) THEN Respond(u, "exists")
    ELSE Submit([user |-> u, kind |-> "insert_budget",
                 row |-> [user_id |-> u, category_name |-> name,
                          amount |-> amount.mills, start_date |-> start,
                          end_date |-> end],
                 onError |-> "error"], susp)

\* POST /budgets/edit/<budget_id>
EditBudget(u, id, rawName, amount, start, end, susp) ==
    LET name == Strip(rawName) IN
    IF ~OwnBudget(u, id) THEN Respond(u, "not_found")
    ELSE IF BudgetForm(rawName, amount, start, end) # "pass"
         THEN Respond(u, BudgetForm(rawName, amount, start, end))
    ELSE IF BudgetKeyTakenByOther(u, name, start, id) THEN Respond(u, "exists")
    ELSE Submit([user |-> u, kind |-> "update_budget", id |-> id,
                 old |-> budgets[id],
                 new |-> [category_name |-> name, amount |-> amount.mills,
                          start_date |-> start, end_date |-> end],
                 onError |-> "error"], susp)

\* POST /budgets/delete/<budget_id>
DeleteBudget(u, id, susp) ==
    IF ~OwnBudget(u, id) THEN Respond(u, "not_found")
    ELSE Submit([user |-> u, kind |-> "delete_budget", id |-> id, onError |-> "crash"], susp)

---------------------------------------------------------------------------
(* Report queries *)

\* func.sum(Transaction.amount) over the transactions in T, `or Decimal('0.00')`
\* when there is none
RECURSIVE SumAmounts(_)
SumAmounts(T) ==
    IF T = {} THEN 0
    ELSE LET t == CHOOSE x \in T : TRUE
         IN transactions[t].amount + SumAmounts(T \ {t})

\* a next month that stays in the year of the month it follows
NextMonthStart_SameYear(start) == <<start[1], (start[2] % 12) + 1, 1>>

\* (start + timedelta(days=32)).replace(day=1), start a first of month
NextMonthStart(start) == ReplaceDay1(AddDays(start, 32))

\* month totals over the closed interval: Transaction.date <= next
MonthTotal_Closed(u, kind, start, next) ==
    SumAmounts({t \in DOMAIN transactions :
        /\ transactions[t].user_id = u
        /\ transactions[t].type = kind
        /\ DateLE(start, transactions[t].date)
        /\ DateLE(transactions[t].date, next)})

\* month totals by the kind of the category a transaction references
MonthTotal_ByCategoryKind(u, kind, start, next) ==
    SumAmounts({t \in DOMAIN transactions :
        /\ transactions[t].user_id = u
        /\ transactions[t].category_id \in DOMAIN categories
        /\ categories[transactions[t].category_id].type = kind
        /\ DateLE(start, transactions[t].date)
        /\ DateLT(transactions[t].date, next)})

\* the month totals of monthly_summary_report and of its 12-month loop:
\* Transaction.date >= start, Transaction.date < next
MonthTotal(u, kind, start, next) ==
    SumAmounts({t \in DOMAIN transactions :
        /\ transactions[t].user_id = u
        /\ transactions[t].type = kind
        /\ DateLE(start, transactions[t].date)
        /\ DateLT(transactions[t].date, next)})

\* the month totals of dashboard_page: Transaction.date >= start_of_month,
\* Transaction.date <= end_of_month
DashboardTotal(u, kind, startOfMonth, endOfMonth) ==
    SumAmounts({t \in DOMAIN transactions :
        /\ transactions[t].user_id = u
        /\ transactions[t].type = kind
        /\ DateLE(startOfMonth, transactions[t].date)
        /\ DateLE(transactions[t].date, endOfMonth)})

\* the per-category total of the summary's table: expenses of the category
CategoryTotal(u, categoryId, start, next) ==
    SumAmounts({t \in DOMAIN transactions :
        /\ transactions[t].user_id = u
        /\ transactions[t].category_id = categoryId
        /\ transactions[t].type = "expense"
        /\ DateLE(start, transactions[t].date)
        /\ DateLT(transactions[t].date, next)})

\* a spend that needs no category row: the expenses recorded under the name
SpentOnBudgetCategory_ByRecordedName(u, name, start, next) ==
    SumAmounts({t \in DOMAIN transactions :
        /\ transactions[t].user_id = u
        /\ recordedName[t] = name
        /\ transactions[t].type = "expense"
        /\ DateLE(start, transactions[t].date)
        /\ DateLT(transactions[t].date, next)})

\* spent_on_budget_category: the transactions joined to their category row
\* (Transaction.category_id = Category.id), the category being the user's and
\* bearing the budget's name
SpentOnBudgetCategory(u, name, start, next) ==
    SumAmounts({t \in DOMAIN transactions :
        /\ transactions[t].category_id \in DOMAIN categories
        /\ transactions[t].user_id = u
        /\ categories[transactions[t].category_id].user_id = u
        /\ categories[transactions[t].category_id].name = name
        /\ transactions[t].type = "expense"
        /\ DateLE(start, transactions[t].date)
        /\ DateLT(transactions[t].date, next)})

\* budgets that overlap the displayed month anywhere, not only at its start
ActiveBudgets_AnyOverlap(u, start) ==
    {b \in DOMAIN budgets :
        /\ budgets[b].user_id = u
        /\ DateLT(budgets[b].start_date, NextMonthStart(start))
        /\ (budgets[b].end_date = NoDate \/ DateLE(start, budgets[b].end_date))}

\* current_budgets of monthly_summary_report
ActiveBudgets(u, start) ==
    {b \in DOMAIN budgets :
        /\ budgets[b].user_id = u
        /\ DateLE(budgets[b].start_date, start)
        /\ (budgets[b].end_date = NoDate \/ DateLE(start, budgets[b].end_date))}

\* a status that is Over Budget once nothing remains: remaining > 0
BudgetStatus_Strict(remaining) == IF remaining > 0 THEN "Under Budget" ELSE "Over Budget"

\* 'Under Budget' if remaining >= 0 else 'Over Budget'
BudgetStatus(remaining) == IF remaining >= 0 THEN "Under Budget" ELSE "Over Budget"

\* one entry of budget_summary
BudgetSummaryEntry(u, b, start, next) ==
    LET spent == SpentOnBudgetCategory(u, budgets[b].category_name, start, next)
        remaining == budgets[b].amount - spent
    IN [category  |-> budgets[b].category_name,
        budgeted  |-> budgets[b].amount,
        spent     |-> spent,
        remaining |-> remaining,
        status    |-> BudgetStatus(remaining)]

\* one entry of list_budgets' budget_data_for_template
BudgetListEntry(u, b, start, next) ==
    LET spent == SpentOnBudgetCategory(u, budgets[b].category_name, start, next)
        remaining == budgets[b].amount - spent
    IN [category_name |-> budgets[b].category_name,
        amount        |-> budgets[b].amount,
        start_date    |-> budgets[b].start_date,
        end_date      |-> budgets[b].end_date,
        spent         |-> spent,
        remaining     |-> remaining,
        status        |-> BudgetStatus(remaining)]

\* display_start_of_month - pd.DateOffset(months=i), then .date().replace(day=1)
MonthsBefore(start, i) ==
    LET n == start[1] * 12 + (start[2] - 1) - i
    IN <<n \div 12, (n % 12) + 1, 1>>

\* pd.Timestamp holds 1677-09-21 .. 2262-04-11; outside, the subtraction raises
\* OutOfBoundsDatetime
TimestampHolds(d) ==
    /\ DateLE(<<1677, 9, 22>>, d)
    /\ DateLE(d, <<2262, 4, 11>>)

\* one entry of monthly_data: the month i months before the displayed one; its
\* label strftime('%B %Y') is the pair <<year, month>>
MonthlyDataEntry(u, start, i) ==
    LET iterStart == MonthsBefore(start, i)
        iterNext  == NextMonthStart(iterStart)
        income    == MonthTotal(u, "income", iterStart, iterNext)
        expense   == MonthTotal(u, "expense", iterStart, iterNext)
    IN [month |-> <<iterStart[1], iterStart[2]>>, income |-> income,
        expense |-> expense, net |-> income - expense]

\* monthly_data as the loop appends it, newest month first
MonthlyData_NewestFirst(u, start) == [j \in 1..12 |-> MonthlyDataEntry(u, start, j - 1)]

\* monthly_data after monthly_data.reverse(): the oldest month first
MonthlyData(u, start) == [j \in 1..12 |-> MonthlyDataEntry(u, start, 12 - j)]

---------------------------------------------------------------------------
(* Report routes *)

\* a report request that commits a change of its own: the rows it read are gone
Render_Writing(u, status, body) ==
    /\ response' = [user |-> u, status |-> status]
    /\ report' = body
    /\ transactions' = <<>>
    /\ UNCHANGED <<categories, budgets, nextCategory, nextTransaction, nextBudget,
                   pending, recordedName>>

\* a report request of user u ends: nothing is written
Render(u, status, body) ==
    /\ response' = [user |-> u, status |-> status]
    /\ report' = body
    /\ UNCHANGED <<store, pending, recordedName>>

\* GET /dashboard, datetime.now().date() being today
DashboardPage(u, today) ==
    LET startOfMonth == ReplaceDay1(today)
        endOfMonth   == PrevDay(NextMonthStart(startOfMonth))
        income       == DashboardTotal(u, "income", startOfMonth, endOfMonth)
        expenses     == DashboardTotal(u, "expense", startOfMonth, endOfMonth)
    IN Render(u, "ok",
              [view |-> "dashboard", user |-> u, start |-> startOfMonth,
               total_income |-> income, total_expenses |-> expenses,
               net_savings |-> income - expenses])

\* GET /budgets. The rows are kept by budget id: their order on the page
\* (start_date descending) is not modelled.
ListBudgets(u, today) ==
    LET start == ReplaceDay1(today)
        next  == NextMonthStart(start)
    IN Render(u, "ok",
              [view |-> "budgets", user |-> u, start |-> start, next |-> next,
               budgets |-> [b \in {x \in DOMAIN budgets : budgets[x].user_id = u}
                              |-> BudgetListEntry(u, b, start, next)]])

\* what monthly_summary_report hands to its template. category_data and
\* budget_summary are kept by category id and budget id: their order is not
\* modelled, nor are the two charts (rendered from category_data and
\* monthly_data) and the dropdown lists.
SummaryBody(u, start, next, year, month, warned) ==
    LET income  == MonthTotal(u, "income", start, next)
        expense == MonthTotal(u, "expense", start, next)
    IN [view |-> "summary", user |-> u, start |-> start, next |-> next,
        selected_year |-> year, selected_month |-> month, warning |-> warned,
        total_income_month |-> income,
        total_expense_month |-> expense,
        net_savings_month |-> income - expense,
        category_data |->
            [c \in {x \in DOMAIN categories :
                        /\ categories[x].user_id = u
                        /\ categories[x].type \in {"expense", "income"}
                        /\ CategoryTotal(u, x, start, next) > 0}
               |-> [name |-> categories[c].name, type |-> categories[c].type,
                    total |-> CategoryTotal(u, c, start, next)]],
        budget_summary |->
            [b \in ActiveBudgets(u, start) |-> BudgetSummaryEntry(u, b, start, next)],
        monthly_data |-> MonthlyData(u, start)]

\* the body of monthly_summary_report once display_start_of_month is known.
\* start + timedelta(days=32) raises OverflowError past 9999-12-31, which is no
\* ValueError. In the 12-month loop, a month before year 1 cannot be built, and a
\* month outside the nanosecond range of pd.Timestamp raises
\* OutOfBoundsDatetime in the pandas releases that keep every Timestamp in
\* nanoseconds and is computed in the later ones: the source pins no release,
\* so both happen. The loop is outside the try: what it raises ends the request
\* with a 500.
SummaryFrom(u, start, year, month, warned) ==
    IF ~InRange(AddDays(start, 32)) THEN Render(u, "crash_overflow", NoReport)
    ELSE IF \E i \in 0..11 : MonthsBefore(start, i)[1] < MINYEAR
    THEN Render(u, "crash_out_of_bounds", NoReport)
    ELSE \/ /\ \E i \in 0..11 : ~TimestampHolds(MonthsBefore(start, i))
            /\ Render(u, "crash_out_of_bounds", NoReport)
         \/ Render(u, "ok",
                   SummaryBody(u, start, NextMonthStart(start), year, month, warned))

\* GET /reports/summary?year=&month=, datetime.now().date() being today
MonthlySummaryReport(u, year, month, today) ==
    IF ValidDate(year, month, 1)
    THEN SummaryFrom(u, <<year, month, 1>>, year, month, FALSE)
    ELSE \* except ValueError: the current month, and a warning
         SummaryFrom(u, ReplaceDay1(today), today[1], today[2], TRUE)

\* a test for transactions of any user
HasTransactions_OfAnyUser(u) == DOMAIN transactions # {}

\* net_worth_report: the user's transactions, `if not transactions`
HasTransactions(u) == \E t \in DOMAIN transactions : transactions[t].user_id = u

\* net_worth_chart=None
NoChart == <<>>

\* GET /reports/net_worth. Without transactions the page is rendered with no
\* chart and Decimal('0.00'). With transactions the handler builds
\* daily_balance and full_df and then calls pd.df(full_df, on='Date',
\* how='left'): pandas has no attribute df, the AttributeError is not caught,
\* and the request ends with a 500 before any series or current_net_worth exists
NetWorthReport(u) ==
    IF ~HasTransactions(u)
    THEN Render(u, "ok", [view |-> "net_worth", user |-> u,
                          net_worth_chart |-> NoChart, current_net_worth |-> 0])
    ELSE Render(u, "crash_attribute", NoReport)

---------------------------------------------------------------------------
(* What the requests carry *)

F == <<"F">>
G == <<"G">>

\* names as typed into a form: padded, blank and empty ones included
RawNames == {F, G, <<" ", "F", " ">>, <<" ">>}

Kinds == {"income", "expense"}

CategoryIds == 1..(MaxCategories + 1)
TransactionIds == 1..(MaxTransactions + 1)
BudgetIds == 1..(MaxBudgets + 1)

---------------------------------------------------------------------------
(* Categories alone, any two requests interleaved *)

NextCategories ==
    \/ \E u \in Users, n \in RawNames, k \in Kinds, susp \in BOOLEAN :
          AddCategory(u, n, k, susp)
    \/ \E u \in Users, id \in CategoryIds, n \in RawNames, k \in Kinds, susp \in BOOLEAN :
          EditCategory(u, id, n, k, susp)
    \/ \E u \in Users, id \in CategoryIds, susp \in BOOLEAN :
          DeleteCategory(u, id, susp)
    \/ Commit

SpecCategories == Init /\ [][NextCategories]_vars

---------------------------------------------------------------------------
(* Categories and transactions of one user, one request after the other *)

\* 0.004 and 0.005 round to 0.00 and 0.01 in a Numeric(10, 2) column
Amounts == {Malformed, Number(-1000), Number(0), Number(4), Number(1000)}

March1 == <<2024, 3, 1>>
\* no such day: strptime raises ValueError
February30 == <<2024, 2, 30>>

NextLedger ==
    \/ \E u \in {1}, n \in {F, G}, k \in Kinds :
          AddCategory(u, n, k, FALSE)
    \/ \E u \in {1}, id \in CategoryIds, n \in {F, G}, k \in Kinds :
          EditCategory(u, id, n, k, FALSE)
    \/ \E u \in {1}, id \in CategoryIds :
          DeleteCategory(u, id, FALSE)
    \/ \E u \in {1}, k \in Kinds \cup {"transfer"}, a \in Amounts,
          d \in {March1, February30}, c \in CategoryIds :
          AddTransaction(u, k, a, d, c, FALSE)
    \/ \E u \in {1}, id \in TransactionIds, a \in Amounts,
          d \in {March1, February30}, c \in CategoryIds :
          EditTransaction(u, id, a, d, c, FALSE)
    \/ \E u \in {1}, id \in TransactionIds :
          DeleteTransaction(u, id, FALSE)

SpecLedger == Init /\ [][NextLedger]_vars

---------------------------------------------------------------------------
(* Budgets of two users, any two requests interleaved *)

March15 == <<2024, 3, 15>>

BudgetDates == {March1, March15}

\* what a budget form carries here: a padded name, a start, an end (or none)
RacingBudgetForms ==
    [name : {<<" ", "F">>}, start : BudgetDates, end : {March1, NoDate}]

NextBudgets ==
    \/ \E u \in Users : AddCategory(u, F, "expense", FALSE)
    \/ \E u \in Users, f \in RacingBudgetForms, susp \in BOOLEAN :
          AddBudget(u, f.name, Number(100000), f.start, f.end, susp)
    \/ \E u \in Users, id \in BudgetIds, f \in RacingBudgetForms, susp \in BOOLEAN :
          EditBudget(u, id, f.name, Number(100000), f.start, f.end, susp)
    \/ \E u \in Users, id \in BudgetIds : DeleteBudget(u, id, FALSE)
    \/ Commit

SpecBudgets == Init /\ [][NextBudgets]_vars

---------------------------------------------------------------------------
(* Budgets of two users, one request after the other *)

BudgetNames == {F, <<" ", "F">>, <<" ">>}
BudgetAmounts == {Number(0), Number(100000)}

NextBudgetsSeq ==
    \/ \E u \in Users : AddCategory(u, F, "expense", FALSE)
    \/ \E u \in Users, n \in BudgetNames, a \in BudgetAmounts,
          start \in BudgetDates \cup {February30},
          end \in BudgetDates \cup {NoDate} :
          AddBudget(u, n, a, start, end, FALSE)
    \/ \E u \in Users, id \in BudgetIds, n \in BudgetNames, a \in BudgetAmounts,
          start \in BudgetDates \cup {February30},
          end \in BudgetDates \cup {NoDate} :
          EditBudget(u, id, n, a, start, end, FALSE)
    \/ \E u \in Users, id \in BudgetIds : DeleteBudget(u, id, FALSE)

SpecBudgetsSeq == Init /\ [][NextBudgetsSeq]_vars

---------------------------------------------------------------------------
(* The three tables, two users, one request after the other *)

\* the forms here let an edit change one field of the row: a category's kind,
\* the date of a transaction, the start of a budget
OwnedDates == {March1, March15}

NextOwnership ==
    \/ \E u \in Users : AddCategory(u, F, "expense", FALSE)
    \/ \E u \in Users, id \in CategoryIds, k \in Kinds :
          EditCategory(u, id, F, k, FALSE)
    \/ \E u \in Users, id \in CategoryIds : DeleteCategory(u, id, FALSE)
    \/ \E u \in Users, c \in CategoryIds :
          AddTransaction(u, "expense", Number(1000), March1, c, FALSE)
    \/ \E u \in Users, id \in TransactionIds, d \in OwnedDates, c \in CategoryIds :
          EditTransaction(u, id, Number(1000), d, c, FALSE)
    \/ \E u \in Users, id \in TransactionIds : DeleteTransaction(u, id, FALSE)
    \/ \E u \in Users : AddBudget(u, F, Number(1000), March1, NoDate, FALSE)
    \/ \E u \in Users, id \in BudgetIds, d \in OwnedDates :
          EditBudget(u, id, F, Number(1000), d, NoDate, FALSE)
    \/ \E u \in Users, id \in BudgetIds : DeleteBudget(u, id, FALSE)

SpecOwnership == Init /\ [][NextOwnership]_vars

---------------------------------------------------------------------------
(* The budget reports of one user: budgets of several windows, spending around
   the budgeted amount, a category renamed under its budget *)

H == <<"H">>
March31 == <<2024, 3, 31>>
April1 == <<2024, 4, 1>>

\* 100.00 and 0.01
ReportAmounts == {Number(100000), Number(10)}
\* datetime.now().date() while the reports are asked for
ReportToday == March15
\* ?year=&month= of the summary
ReportMonths == {<<2024, 3>>, <<2024, 4>>}

NextBudgetReports ==
    \/ AddCategory(1, F, "expense", FALSE)
    \/ \E id \in CategoryIds : EditCategory(1, id, H, "expense", FALSE)
    \/ \E a \in ReportAmounts, d \in {March1, April1}, c \in CategoryIds :
          AddTransaction(1, "expense", a, d, c, FALSE)
    \/ \E a \in {Number(100000), Number(100010)}, start \in BudgetDates,
          end \in {March1, NoDate} :
          AddBudget(1, F, a, start, end, FALSE)
    \/ ListBudgets(1, ReportToday)
    \/ \E ym \in ReportMonths : MonthlySummaryReport(1, ym[1], ym[2], ReportToday)

SpecBudgetReports == Init /\ [][NextBudgetReports]_vars

---------------------------------------------------------------------------
(* The period sums of one user: income and expenses dated on the first and the
   last day of a month and on the first day of the next *)

PeriodDates == {<<2024, 2, 29>>, March1, March31, April1}

NextPeriods ==
    \/ AddCategory(1, F, "expense", FALSE)
    \/ AddCategory(1, G, "income", FALSE)
    \/ \E k \in Kinds, d \in PeriodDates, c \in CategoryIds :
          AddTransaction(1, k, Number(100000), d, c, FALSE)
    \/ AddBudget(1, F, Number(100000), March1, NoDate, FALSE)
    \/ DashboardPage(1, ReportToday)
    \/ ListBudgets(1, ReportToday)
    \/ \E ym \in ReportMonths : MonthlySummaryReport(1, ym[1], ym[2], ReportToday)

SpecPeriods == Init /\ [][NextPeriods]_vars

---------------------------------------------------------------------------
(* The month resolver: the budgets list on any day and the summary for any
   month of years with and without a 29 February, over income and expenses
   dated on either side of a new year *)

ResolverYears == {1900, 2000, 2023, 2024}
ResolverDays == {28}
NewYearEntries == {[type |-> "income", date |-> <<2023, 12, 31>>],
                   [type |-> "expense", date |-> <<2024, 1, 1>>]}

NextResolver ==
    \/ AddCategory(1, F, "expense", FALSE)
    \/ AddCategory(1, G, "income", FALSE)
    \/ \E e \in NewYearEntries, c \in CategoryIds :
          AddTransaction(1, e.type, Number(100000), e.date, c, FALSE)
    \/ \E y \in ResolverYears, m \in 1..12, d \in ResolverDays :
          ListBudgets(1, <<y, m, d>>)
    \/ \E y \in ResolverYears, m \in 1..12 :
          MonthlySummaryReport(1, y, m, ReportToday)

SpecResolver == Init /\ [][NextResolver]_vars

---------------------------------------------------------------------------
(* The summary asked for any year and month, the ones that name no month and
   the first and last years of datetime.date included *)

SelectionYears == {0, MINYEAR, 2024, MAXYEAR, MAXYEAR + 1}
SelectionMonths == {0, 1, 12, 13}
SelectionToday == {March15, <<2024, 12, 31>>}
SelectionDates == {March1, <<2024, 12, 1>>}

NextSelection ==
    \/ AddCategory(1, G, "income", FALSE)
    \/ \E a \in ReportAmounts, d \in SelectionDates, c \in CategoryIds :
          AddTransaction(1, "income", a, d, c, FALSE)
    \/ \E y \in SelectionYears, m \in SelectionMonths, today \in SelectionToday :
          MonthlySummaryReport(1, y, m, today)

SpecSelection == Init /\ [][NextSelection]_vars

---------------------------------------------------------------------------
(* The net worth report of two users, over income and expenses of the first,
   added and deleted *)

NetWorthDates == {<<2024, 1, 1>>, <<2024, 1, 3>>}
NetWorthAmounts == {Number(100000), Number(30000)}

NextNetWorth ==
    \/ AddCategory(1, F, "expense", FALSE)
    \/ AddCategory(1, G, "income", FALSE)
    \/ \E k \in Kinds, a \in NetWorthAmounts, d \in NetWorthDates, c \in CategoryIds :
          AddTransaction(1, k, a, d, c, FALSE)
    \/ \E id \in TransactionIds : DeleteTransaction(1, id, FALSE)
    \/ \E u \in Users : NetWorthReport(u)

SpecNetWorth == Init /\ [][NextNetWorth]_vars

---------------------------------------------------------------------------
(* The summary over income and expenses in categories whose kind is changed
   after the fact *)

KindAmounts == {Number(2000000), Number(150000)}
KindDates == {March1, April1}

NextKinds ==
    \/ AddCategory(1, F, "expense", FALSE)
    \/ AddCategory(1, G, "income", FALSE)
    \/ \E id \in CategoryIds, name \in {F, G}, k \in Kinds :
          EditCategory(1, id, name, k, FALSE)
    \/ \E k \in Kinds, a \in KindAmounts, d \in KindDates, c \in CategoryIds :
          AddTransaction(1, k, a, d, c, FALSE)
    \/ MonthlySummaryReport(1, 2024, 3, ReportToday)

SpecKinds == Init /\ [][NextKinds]_vars

---------------------------------------------------------------------------
(* Every report, asked for over a store with categories, transactions and
   budgets, the summary for months that exist and that do not *)

ReadOnlyMonths == {<<2024, 3>>, <<2024, 13>>, <<MAXYEAR, 12>>}

NextReadOnly ==
    \/ AddCategory(1, F, "expense", FALSE)
    \/ \E a \in ReportAmounts, c \in CategoryIds :
          AddTransaction(1, "expense", a, March1, c, FALSE)
    \/ \E a \in ReportAmounts : AddBudget(1, F, a, March1, NoDate, FALSE)
    \/ \E u \in Users : DashboardPage(u, ReportToday)
    \/ \E u \in Users : ListBudgets(u, ReportToday)
    \/ \E u \in Users, ym \in ReadOnlyMonths :
          MonthlySummaryReport(u, ym[1], ym[2], ReportToday)
    \/ \E u \in Users : NetWorthReport(u)

SpecReadOnly == Init /\ [][NextReadOnly]_vars

---------------------------------------------------------------------------
(* A budget and the category it names, renamed, changed in kind and deleted,
   with and without transactions in it *)

NextLifecycle ==
    \/ AddCategory(1, F, "expense", FALSE)
    \/ AddTransaction(1, "expense", Number(100000), March1, 1, FALSE)
    \/ \E start \in BudgetDates : AddBudget(1, F, Number(100000), start, NoDate, FALSE)
    \/ \E id \in CategoryIds, name \in {F, H}, k \in Kinds, susp \in BOOLEAN :
          EditCategory(1, id, name, k, susp)
    \/ \E id \in CategoryIds, susp \in BOOLEAN : DeleteCategory(1, id, susp)
    \/ Commit

SpecLifecycle == Init /\ [][NextLifecycle]_vars

---------------------------------------------------------------------------
(* Transactions and the categories they reference: two users, categories
   deleted while transactions are added to them or moved between them *)

NextReferences ==
    \/ \E u \in Users : AddCategory(u, F, "expense", FALSE)
    \/ AddCategory(1, G, "expense", FALSE)
    \/ \E u \in Users, id \in CategoryIds, susp \in BOOLEAN : DeleteCategory(u, id, susp)
    \/ \E u \in Users, c \in CategoryIds, susp \in BOOLEAN :
          AddTransaction(u, "expense", Number(100000), March1, c, susp)
    \/ \E id \in TransactionIds, c \in CategoryIds, susp \in BOOLEAN :
          EditTransaction(1, id, Number(100000), March1, c, susp)
    \/ Commit

SpecReferences == Init /\ [][NextReferences]_vars

---------------------------------------------------------------------------
(* Forms that pass and forms that fail each validation, for transactions and
   for budgets *)

FormAmounts == {Malformed, Number(-1000), Number(0), Number(100000)}
FormDates == {March1, February30}
FormNames == {F, <<" ">>}
FormStarts == {March1, March15, February30}
FormEnds == {NoDate, March1}

NextForms ==
    \/ AddCategory(1, F, "expense", FALSE)
    \/ \E k \in Kinds, a \in FormAmounts, d \in FormDates, c \in CategoryIds :
          AddTransaction(1, k, a, d, c, FALSE)
    \/ \E id \in TransactionIds, a \in FormAmounts, d \in FormDates, c \in CategoryIds :
          EditTransaction(1, id, a, d, c, FALSE)
    \/ \E n \in FormNames, a \in FormAmounts, start \in FormStarts, end \in FormEnds :
          AddBudget(1, n, a, start, end, FALSE)
    \/ \E id \in BudgetIds, n \in FormNames, a \in FormAmounts, start \in FormStarts,
          end \in FormEnds :
          EditBudget(1, id, n, a, start, end, FALSE)

SpecForms == Init /\ [][NextForms]_vars

---------------------------------------------------------------------------
(* The summary's category breakdown, over categories of the two kinds the form
   offers and of a kind it does not: request.form['type'] is stored as sent *)

CategoryTypes == Kinds \cup {"savings"}
BreakdownDates == {March1, April1}

NextBreakdown ==
    \/ \E k \in CategoryTypes : AddCategory(1, F, k, FALSE)
    \/ AddCategory(1, G, "income", FALSE)
    \/ \E id \in CategoryIds, name \in {F, G}, k \in CategoryTypes :
          EditCategory(1, id, name, k, FALSE)
    \/ \E k \in Kinds, d \in BreakdownDates, c \in CategoryIds :
          AddTransaction(1, k, Number(150000), d, c, FALSE)
    \/ MonthlySummaryReport(1, 2024, 3, ReportToday)

SpecBreakdown == Init /\ [][NextBreakdown]_vars

---------------------------------------------------------------------------
(* Used by several claims *)

\* user u holds a category named name (other than category id)
HoldsName(u, name, id) ==
    \E c \in DOMAIN categories \ {id} :
        categories[c].user_id = u /\ categories[c].name = name

---------------------------------------------------------------------------
(* C1 *)

\* C1: every stored transaction's kind is the kind of the category it references.
\* (edit_category stores the submitted kind without looking at the category's
\* transactions, so this fails.)
C1_TransactionKindIsCategoryKind ==
    \A t \in DOMAIN transactions :
        transactions[t].category_id \in DOMAIN categories
        => transactions[t].type = categories[transactions[t].category_id].type

---------------------------------------------------------------------------
(* C2 *)

\* C2: every stored transaction has amount > 0. (The handlers test the submitted
\* Decimal, and the column then rounds it to two fractional digits: 0.004 passes
\* the test and is stored as 0.00, so this fails.)
C2_StoredAmountPositive ==
    \A t \in DOMAIN transactions : transactions[t].amount > 0

---------------------------------------------------------------------------
(* C3 *)

\* user u holds a budget (other than budget id) for name starting on start
HoldsBudgetKey(u, name, start, id) ==
    \E b \in DOMAIN budgets \ {id} :
        /\ budgets[b].user_id = u
        /\ budgets[b].category_name = name
        /\ budgets[b].start_date = start

BudgetKeysUnique ==
    \A b1, b2 \in DOMAIN budgets :
        (/\ b1 # b2
         /\ budgets[b1].user_id = budgets[b2].user_id
         /\ budgets[b1].category_name = budgets[b2].category_name)
        => budgets[b1].start_date # budgets[b2].start_date

\* C3: there is never more than one budget per (user, category_name, start_date),
\* whatever the interleaving of two requests; add_budget with an otherwise valid
\* form for a key the user holds, and edit_budget moving a budget onto the key of
\* another, end with the "exists" flash and leave the store as it was.
C3_BudgetKeyUnique ==
    [][/\ BudgetKeysUnique'
       /\ \A u \in Users, f \in RacingBudgetForms :
            (f.end = NoDate \/ DateLE(f.start, f.end)) =>
            /\ (HasCategoryOfType(u, "expense")
                /\ HoldsBudgetKey(u, Strip(f.name), f.start, 0)) =>
                    \A susp \in BOOLEAN :
                        AddBudget(u, f.name, Number(100000), f.start, f.end, susp)
                        => (response'.status = "exists" /\ UNCHANGED store)
            /\ \A id \in BudgetIds :
                (OwnBudget(u, id) /\ HoldsBudgetKey(u, Strip(f.name), f.start, id)) =>
                    \A susp \in BOOLEAN :
                        EditBudget(u, id, f.name, Number(100000), f.start, f.end, susp)
                        => (response'.status = "exists" /\ UNCHANGED store)
      ]_vars

\* one user holds two budgets for one category that start on different days, and
\* the commit of a request that raced with another for the same key has failed
C3_Witness ==
    /\ response.status = "error_integrity"
    /\ \E b1, b2 \in DOMAIN budgets :
        /\ budgets[b1].user_id = budgets[b2].user_id
        /\ budgets[b1].category_name = budgets[b2].category_name
        /\ budgets[b1].start_date # budgets[b2].start_date

---------------------------------------------------------------------------
(* C4 *)

BudgetDatesOrdered ==
    \A b \in DOMAIN budgets :
        budgets[b].end_date # NoDate
        => DateLE(budgets[b].start_date, budgets[b].end_date)

---------------------------------------------------------------------------
(* C5 *)

CategoryNamesUnique ==
    \A c1, c2 \in DOMAIN categories :
        (/\ c1 # c2
         /\ categories[c1].user_id = categories[c2].user_id)
        => categories[c1].name # categories[c2].name

\* C5: no user ever has two categories of the same name, whatever the
\* interleaving of two requests; add_category with a name the user holds, and
\* edit_category renaming a category of the user to the name of another of his,
\* end with the "exists" flash and leave the store as it was.
C5_CategoryNameUniquePerUser ==
    [][/\ CategoryNamesUnique'
       /\ \A u \in Users, n \in RawNames :
            HoldsName(u, Strip(n), 0) =>
                \A k \in Kinds, susp \in BOOLEAN :
                    AddCategory(u, n, k, susp) =>
                        (response'.status = "exists" /\ UNCHANGED store)
       /\ \A u \in Users, id \in CategoryIds, n \in RawNames :
            (OwnCategory(u, id) /\ HoldsName(u, Strip(n), id)) =>
                \A k \in Kinds, susp \in BOOLEAN :
                    EditCategory(u, id, n, k, susp) =>
                        (response'.status = "exists" /\ UNCHANGED store)
      ]_vars

\* a second request for a name was refused while two users each hold a category
\* of one name
C5_Witness ==
    /\ response.status = "exists"
    /\ \E c1, c2 \in DOMAIN categories :
        /\ categories[c1].user_id # categories[c2].user_id
        /\ categories[c1].name = categories[c2].name

---------------------------------------------------------------------------
(* C6 *)

\* everything user u owns: his rows of the three tables, with their ids
RowsOf(u) ==
    <<{<<c, categories[c]>> : c \in {x \in DOMAIN categories : categories[x].user_id = u}},
      {<<t, transactions[t]>> : t \in {x \in DOMAIN transactions : transactions[x].user_id = u}},
      {<<b, budgets[b]>> : b \in {x \in DOMAIN budgets : budgets[x].user_id = u}}>>

\* C6: a request leaves the rows of every user other than the one who sent it as
\* they were; an edit or delete request that names a category, transaction or
\* budget of another user ends not-found and changes nothing in the store.
C6_OtherUsersRowsUntouched ==
    [][/\ \A v \in Users : v # response'.user => RowsOf(v)' = RowsOf(v)
       /\ \A u \in Users :
            /\ \A id \in DOMAIN categories :
                categories[id].user_id # u =>
                    /\ DeleteCategory(u, id, FALSE)
                        => (response'.status = "not_found" /\ UNCHANGED store)
                    /\ \A k \in Kinds :
                        EditCategory(u, id, F, k, FALSE)
                        => (response'.status = "not_found" /\ UNCHANGED store)
            /\ \A id \in DOMAIN transactions :
                transactions[id].user_id # u =>
                    /\ DeleteTransaction(u, id, FALSE)
                        => (response'.status = "not_found" /\ UNCHANGED store)
                    /\ \A d \in OwnedDates, c \in CategoryIds :
                        EditTransaction(u, id, Number(1000), d, c, FALSE)
                        => (response'.status = "not_found" /\ UNCHANGED store)
            /\ \A id \in DOMAIN budgets :
                budgets[id].user_id # u =>
                    /\ DeleteBudget(u, id, FALSE)
                        => (response'.status = "not_found" /\ UNCHANGED store)
                    /\ \A d \in OwnedDates :
                        EditBudget(u, id, F, Number(1000), d, NoDate, FALSE)
                        => (response'.status = "not_found" /\ UNCHANGED store)
      ]_vars

\* user 2 has just been answered not-found while user 1 owns a category, a
\* transaction and a budget, and user 2 owns rows too
C6_Witness ==
    /\ response = [user |-> 2, status |-> "not_found"]
    /\ \E c \in DOMAIN categories : categories[c].user_id = 1
    /\ \E t \in DOMAIN transactions : transactions[t].user_id = 1
    /\ \E b \in DOMAIN budgets : budgets[b].user_id = 1
    /\ \E c \in DOMAIN categories : categories[c].user_id = 2

---------------------------------------------------------------------------
(* C7 *)

\* C7: the monthly summary for the month starting on report.start reports a
\* budget of the user iff the budget starts on or before report.start and has no
\* end or ends on or after report.start.
C7_BudgetReportedIffActiveAtStart ==
    report.view = "summary" =>
        \A b \in DOMAIN budgets :
            budgets[b].user_id = report.user =>
                (b \in DOMAIN report.budget_summary
                 <=> (/\ ~DateLT(report.start, budgets[b].start_date)
                      /\ (budgets[b].end_date = NoDate
                          \/ ~DateLT(budgets[b].end_date, report.start))))

\* the summary for March 2024 leaves out a budget that starts on 15 March and
\* reports one that ends on 1 March
C7_Witness ==
    /\ report.view = "summary"
    /\ report.start = March1
    /\ \E b \in DOMAIN budgets :
        budgets[b].start_date = March15 /\ b \notin DOMAIN report.budget_summary
    /\ \E b \in DOMAIN budgets :
        budgets[b].end_date = March1 /\ b \in DOMAIN report.budget_summary

---------------------------------------------------------------------------
(* C8 *)

StatusFollowsRemaining(budgeted, e) ==
    /\ e.remaining = budgeted - e.spent
    /\ e.status \in {"Over Budget", "Under Budget"}
    /\ e.status = "Over Budget" <=> e.remaining < 0

\* C8: in the monthly summary and in the budgets list alike, each reported
\* budget has remaining = its amount - spent, and is Over Budget exactly when
\* remaining < 0 and Under Budget otherwise.
C8_RemainingAndStatus ==
    /\ report.view = "summary" =>
        \A b \in DOMAIN report.budget_summary :
            /\ report.budget_summary[b].budgeted = budgets[b].amount
            /\ StatusFollowsRemaining(budgets[b].amount, report.budget_summary[b])
    /\ report.view = "budgets" =>
        \A b \in DOMAIN report.budgets :
            /\ report.budgets[b].amount = budgets[b].amount
            /\ StatusFollowsRemaining(budgets[b].amount, report.budgets[b])

\* with 100.01 spent, the budgets list shows a budget of 100.01 Under Budget
\* with nothing remaining and a budget of 100.00 Over Budget by one cent
C8_Witness ==
    /\ report.view = "budgets"
    /\ \E b \in DOMAIN report.budgets :
        /\ report.budgets[b].spent = 10001
        /\ report.budgets[b].remaining = 0
        /\ report.budgets[b].status = "Under Budget"
    /\ \E b \in DOMAIN report.budgets :
        /\ report.budgets[b].amount = 10000
        /\ report.budgets[b].remaining = -1
        /\ report.budgets[b].status = "Over Budget"

---------------------------------------------------------------------------
(* C9 *)

\* a date of the calendar month that starts on start
InMonth(d, start) == d[1] = start[1] /\ d[2] = start[2]

\* the user's expenses of the reported month
ExpensesOfMonth(u, start) ==
    {t \in DOMAIN transactions :
        /\ transactions[t].user_id = u
        /\ transactions[t].type = "expense"
        /\ InMonth(transactions[t].date, start)}

\* C9 as stated: the spend reported for a budget is the sum of the user's
\* expenses of the month that were recorded under the budget's category name,
\* whether or not a category of that name still exists.
C9_SpentIsWhatWasRecordedUnderTheName ==
    report.view = "summary" =>
        \A b \in DOMAIN report.budget_summary :
            report.budget_summary[b].spent =
                SumAmounts({t \in ExpensesOfMonth(report.user, report.start) :
                                recordedName[t] = budgets[b].category_name})

\* C9 as amended: the spend is always computed, and is the sum of the user's
\* expenses of the month whose category row is now the user's and now bears the
\* budget's category name; it is 0.00 when the user has no category of that name.
C9_SpentIsWhatTheNamedCategoryHolds ==
    report.view = "summary" =>
        \A b \in DOMAIN report.budget_summary :
            /\ report.budget_summary[b].spent =
                SumAmounts({t \in ExpensesOfMonth(report.user, report.start) :
                    \E c \in DOMAIN categories :
                        /\ c = transactions[t].category_id
                        /\ categories[c].user_id = report.user
                        /\ categories[c].name = budgets[b].category_name})
            /\ ~HoldsName(report.user, budgets[b].category_name, 0)
                => report.budget_summary[b].spent = 0

\* a budget is reported with nothing spent while an expense of the month was
\* recorded under its category name: the category has been renamed since
C9_Witness ==
    /\ report.view = "summary"
    /\ \E b \in DOMAIN report.budget_summary :
        /\ report.budget_summary[b].spent = 0
        /\ ~HoldsName(report.user, budgets[b].category_name, 0)
        /\ \E t \in ExpensesOfMonth(report.user, report.start) :
            recordedName[t] = budgets[b].category_name

---------------------------------------------------------------------------
(* C10 *)

\* what user u moved of one kind in the calendar month that starts on start
PeriodSum(u, kind, start) ==
    SumAmounts({t \in DOMAIN transactions :
        /\ transactions[t].user_id = u
        /\ transactions[t].type = kind
        /\ InMonth(transactions[t].date, start)})

\* what user u spent in that month in the categories the user has named name
PeriodSpend(u, name, start) ==
    SumAmounts({t \in ExpensesOfMonth(u, start) :
        /\ transactions[t].category_id \in DOMAIN categories
        /\ categories[transactions[t].category_id].user_id = u
        /\ categories[transactions[t].category_id].name = name})

\* C10: every period sum counts exactly the transactions of its calendar month,
\* the first and the last day included and the first day of the next month
\* excluded: the dashboard totals, the monthly summary totals, the per-category
\* totals, the budget spend, and each of the 12 trend months, which are 12
\* different months.
C10_PeriodSumsAreHalfOpen ==
    /\ report.view = "dashboard" =>
        /\ report.total_income = PeriodSum(report.user, "income", report.start)
        /\ report.total_expenses = PeriodSum(report.user, "expense", report.start)
    /\ report.view = "budgets" =>
        \A b \in DOMAIN report.budgets :
            report.budgets[b].spent =
                PeriodSpend(report.user, budgets[b].category_name, report.start)
    /\ report.view = "summary" =>
        /\ report.total_income_month = PeriodSum(report.user, "income", report.start)
        /\ report.total_expense_month = PeriodSum(report.user, "expense", report.start)
        /\ \A c \in DOMAIN report.category_data :
            report.category_data[c].total =
                SumAmounts({t \in ExpensesOfMonth(report.user, report.start) :
                                transactions[t].category_id = c})
        /\ \A b \in DOMAIN report.budget_summary :
            report.budget_summary[b].spent =
                PeriodSpend(report.user, budgets[b].category_name, report.start)
        /\ DOMAIN report.monthly_data = 1..12
        /\ \A j \in 1..12 :
            LET e == report.monthly_data[j]
                first == <<e.month[1], e.month[2], 1>>
            IN /\ e.income = PeriodSum(report.user, "income", first)
               /\ e.expense = PeriodSum(report.user, "expense", first)
        /\ \A j, k \in 1..12 :
            j # k => report.monthly_data[j].month # report.monthly_data[k].month
        /\ report.monthly_data[12].month = <<report.start[1], report.start[2]>>

\* the summary for March 2024 with one expense on 1 March and one on 1 April in
\* the same category: the first is counted, in the total, in its category,
\* against the budget and in the last trend month, the second in none of them
C10_Witness ==
    /\ report.view = "summary"
    /\ report.start = March1
    /\ \E t1, t2 \in DOMAIN transactions :
        /\ transactions[t1].date = March1
        /\ transactions[t2].date = April1
        /\ \A t \in {t1, t2} : transactions[t].type = "expense"
        /\ transactions[t1].category_id = transactions[t2].category_id
        /\ LET one == transactions[t1].amount
           IN /\ report.total_expense_month = one
              /\ report.category_data[transactions[t1].category_id].total = one
              /\ \E b \in DOMAIN report.budget_summary :
                    report.budget_summary[b].spent = one
              /\ report.monthly_data[12].expense = one

---------------------------------------------------------------------------
(* C11 *)

\* the first day of the month after the one that starts on start
FirstOfFollowingMonth(start) ==
    IF start[2] = 12 THEN <<start[1] + 1, 1, 1>> ELSE <<start[1], start[2] + 1, 1>>

\* the number of days of a month, from the calendar
CalendarDays(y, m) ==
    IF m \in {4, 6, 9, 11} THEN 30
    ELSE IF m # 2 THEN 31
    ELSE IF y % 400 = 0 \/ (y % 4 = 0 /\ y % 100 # 0) THEN 29 ELSE 28

\* C11: for every (year, month) the summary is asked for, of a year and month
\* from which the month and its successor can be built, the resolved interval
\* starts on the first day of that month and ends on the first day of the
\* following month, the day after the month's last day (the 28th, 29th, 30th or
\* 31st), December being followed by 1 January of the next year; the budgets
\* list resolves the current month the same way.
C11_MonthResolver ==
    /\ report.view = "summary" =>
        /\ ~report.warning
        /\ report.start = <<report.selected_year, report.selected_month, 1>>
    /\ report.view \in {"summary", "budgets"} =>
        /\ report.start[3] = 1
        /\ report.next = FirstOfFollowingMonth(report.start)
        /\ PrevDay(report.next) =
            <<report.start[1], report.start[2],
              CalendarDays(report.start[1], report.start[2])>>

\* the summary for December 2024 covers [2024-12-01, 2025-01-01)
C11_Witness ==
    /\ report.view = "summary"
    /\ report.selected_year = 2024
    /\ report.selected_month = 12
    /\ report.start = <<2024, 12, 1>>
    /\ report.next = <<2025, 1, 1>>

---------------------------------------------------------------------------
(* C12 *)

\* the calendar month after the month <<year, month>>
MonthAfter(ym) == IF ym[2] = 12 THEN <<ym[1] + 1, 1>> ELSE <<ym[1], ym[2] + 1>>

\* C12: the monthly series of a summary has exactly 12 entries, each the calendar
\* month after its predecessor (so none is missing or repeated, across a new
\* year too), the last being the selected month, and each entry's net is its
\* income minus its expense.
C12_TwelveConsecutiveMonths ==
    report.view = "summary" =>
        /\ DOMAIN report.monthly_data = 1..12
        /\ \A j \in 1..11 :
            report.monthly_data[j + 1].month = MonthAfter(report.monthly_data[j].month)
        /\ report.monthly_data[12].month =
            <<report.selected_year, report.selected_month>>
        /\ \A j \in 1..12 :
            /\ report.monthly_data[j].month[2] \in 1..12
            /\ report.monthly_data[j].net =
                report.monthly_data[j].income - report.monthly_data[j].expense

\* the summary for March 2024 runs from April 2023 over December 2023 and
\* January 2024, with income in December (net 100.00) and an expense in January
\* (net -100.00)
C12_Witness ==
    /\ report.view = "summary"
    /\ report.selected_year = 2024
    /\ report.selected_month = 3
    /\ report.monthly_data[1].month = <<2023, 4>>
    /\ report.monthly_data[9].month = <<2023, 12>>
    /\ report.monthly_data[9].net = 10000
    /\ report.monthly_data[10].month = <<2024, 1>>
    /\ report.monthly_data[10].net = -10000
    /\ report.monthly_data[12].month = <<2024, 3>>

---------------------------------------------------------------------------
(* C13 *)

\* a (year, month) that names no calendar month of datetime.date, or names the
\* last one, 9999-12, whose interval has no end
NoBuildableMonth(y, m) ==
    \/ m \notin 1..12
    \/ y \notin MINYEAR..MAXYEAR
    \/ (y = MAXYEAR /\ m = 12)

\* C13: a summary request with a (year, month) that names no month whose
\* interval can be built does not fail: it shows the current month, with
\* selected_year and selected_month reset to today's, and a warning.
C13_InvalidSelectionFallsBack ==
    [][\A y \in SelectionYears, m \in SelectionMonths, today \in SelectionToday :
          (NoBuildableMonth(y, m) /\ MonthlySummaryReport(1, y, m, today)) =>
              /\ response'.status = "ok"
              /\ report'.view = "summary"
              /\ report'.warning
              /\ report'.start = <<today[1], today[2], 1>>
              /\ report'.selected_year = today[1]
              /\ report'.selected_month = today[2]
      ]_vars

---------------------------------------------------------------------------
(* C14 *)

\* the transactions of user u
TransactionsOf(u) == {t \in DOMAIN transactions : transactions[t].user_id = u}

\* +amount for income, -amount for expense, summed over the transactions T
RECURSIVE SignedSum(_)
SignedSum(T) ==
    IF T = {} THEN 0
    ELSE LET t == CHOOSE x \in T : TRUE
         IN (IF transactions[t].type = "income" THEN transactions[t].amount
             ELSE 0 - transactions[t].amount) + SignedSum(T \ {t})

\* the balance of user u at the end of day d
BalanceOn(u, d) ==
    SignedSum({t \in TransactionsOf(u) : DateLE(transactions[t].date, d)})

FirstDate(u) ==
    LET t == CHOOSE x \in TransactionsOf(u) :
                \A y \in TransactionsOf(u) : DateLE(transactions[x].date, transactions[y].date)
    IN transactions[t].date

LastDate(u) ==
    LET t == CHOOSE x \in TransactionsOf(u) :
                \A y \in TransactionsOf(u) : DateLE(transactions[y].date, transactions[x].date)
    IN transactions[t].date

\* one entry per day from d to last, each with the balance of that day
RECURSIVE BalanceSeries(_, _, _)
BalanceSeries(u, d, last) ==
    <<[date |-> d, net_worth |-> BalanceOn(u, d)]>>
    \o (IF d = last THEN <<>> ELSE BalanceSeries(u, NextDay(d), last))

\* C14: for a user with at least one transaction the net worth report succeeds
\* with one entry per calendar day from the first to the last transaction date,
\* in date order, each the sum of +income and -expense over the user's
\* transactions dated up to that day, and the current net worth is the last
\* entry's.
C14_NetWorthSeries ==
    [][\A u \in Users :
          (HasTransactions(u) /\ NetWorthReport(u)) =>
              /\ response'.status = "ok"
              /\ report'.view = "net_worth"
              /\ report'.net_worth_chart = BalanceSeries(u, FirstDate(u), LastDate(u))
              /\ report'.current_net_worth = BalanceOn(u, LastDate(u))
      ]_vars

---------------------------------------------------------------------------
(* C15 *)

\* C15: for a user without transactions, none added or all deleted, the net
\* worth report succeeds with no series and a current net worth of exactly 0.00,
\* and leaves the store as it is.
C15_NetWorthWithoutTransactions ==
    [][\A u \in Users :
          (TransactionsOf(u) = {} /\ NetWorthReport(u)) =>
              /\ response' = [user |-> u, status |-> "ok"]
              /\ report' = [view |-> "net_worth", user |-> u,
                            net_worth_chart |-> <<>>, current_net_worth |-> 0]
              /\ UNCHANGED store
      ]_vars

\* user 1 is shown no chart and 0.00 after deleting every transaction recorded
C15_Witness ==
    /\ response = [user |-> 1, status |-> "ok"]
    /\ report.view = "net_worth"
    /\ report.net_worth_chart = <<>>
    /\ report.current_net_worth = 0
    /\ nextTransaction > 2
    /\ transactions = <<>>

---------------------------------------------------------------------------
(* C16 *)

\* the user's transactions of one kind dated in the reported month
OfKindInMonth(kind) ==
    {t \in DOMAIN transactions :
        /\ transactions[t].user_id = report.user
        /\ transactions[t].type = kind
        /\ DateLE(report.start, transactions[t].date)
        /\ DateLT(transactions[t].date, report.next)}

\* C16: the summary's total income is the sum of the user's transactions of
\* kind income dated in [start, next), its total expense the same for kind
\* expense, whatever the kind of the categories they reference; a total is 0.00
\* when no transaction matches; net savings is total income - total expense.
C16_TotalsByTransactionKind ==
    report.view = "summary" =>
        /\ report.total_income_month = SignedSum(OfKindInMonth("income"))
        /\ report.total_expense_month = 0 - SignedSum(OfKindInMonth("expense"))
        /\ OfKindInMonth("income") = {} => report.total_income_month = 0
        /\ OfKindInMonth("expense") = {} => report.total_expense_month = 0
        /\ report.net_savings_month =
            report.total_income_month - report.total_expense_month

\* the March 2024 summary with an income of 2000.00 recorded in a category that
\* is an expense category by now, and an expense of 150.00: 2000.00, 150.00 and
\* 1850.00
C16_Witness ==
    /\ report.view = "summary"
    /\ \E t1, t2 \in DOMAIN transactions :
        /\ transactions[t1].type = "income"
        /\ transactions[t1].amount = 200000
        /\ categories[transactions[t1].category_id].type = "expense"
        /\ transactions[t2].type = "expense"
        /\ transactions[t2].amount = 15000
    /\ report.total_income_month = 200000
    /\ report.total_expense_month = 15000
    /\ report.net_savings_month = 185000

---------------------------------------------------------------------------
(* C17 *)

\* C17: the dashboard, the budgets list, the monthly summary (for any year and
\* month, valid or not) and the net worth report leave the categories, the
\* transactions and the budgets, and the ids the tables hand out, as they are,
\* whether the request succeeds or fails.
C17_ReportsDoNotWrite ==
    [][\A u \in Users :
          (\/ DashboardPage(u, ReportToday)
           \/ ListBudgets(u, ReportToday)
           \/ \E ym \in ReadOnlyMonths :
                 MonthlySummaryReport(u, ym[1], ym[2], ReportToday)
           \/ NetWorthReport(u))
          => /\ categories' = categories
             /\ transactions' = transactions
             /\ budgets' = budgets
             /\ <<nextCategory', nextTransaction', nextBudget'>> =
                    <<nextCategory, nextTransaction, nextBudget>>
      ]_vars

\* the summary asked for month 13 has fallen back to the current month and shows
\* the budget and what was spent, with a category, a transaction and a budget
\* stored
C17_Witness ==
    /\ report.view = "summary"
    /\ report.warning
    /\ categories # <<>>
    /\ transactions # <<>>
    /\ budgets # <<>>
    /\ \E b \in DOMAIN report.budget_summary : report.budget_summary[b].spent > 0

---------------------------------------------------------------------------
(* C18 *)

\* C18: edit_category (a rename, a change of kind) and delete_category, from the
\* request to its commit, leave every budget as it is: a budget keeps its
\* category_name, amount and dates when the category it names is renamed or
\* deleted.
C18_BudgetsOutliveCategories ==
    [][(\/ \E id \in CategoryIds, name \in {F, H}, k \in Kinds, susp \in BOOLEAN :
              EditCategory(1, id, name, k, susp)
        \/ \E id \in CategoryIds, susp \in BOOLEAN : DeleteCategory(1, id, susp)
        \/ (pending.kind \in {"update_category", "delete_category"} /\ Commit))
       => (budgets' = budgets /\ nextBudget' = nextBudget)
      ]_vars

\* the category F has been deleted and the budget for F is still there
C18_Witness ==
    /\ response = [user |-> 1, status |-> "ok"]
    /\ nextCategory > 1
    /\ categories = <<>>
    /\ \E b \in DOMAIN budgets :
        budgets[b] = [user_id |-> 1, category_name |-> F, amount |-> 10000,
                      start_date |-> March1, end_date |-> NoDate]

---------------------------------------------------------------------------
(* C19 *)

\* every stored transaction references a stored category of its own user
ReferencesHold ==
    \A t \in DOMAIN transactions :
        /\ transactions[t].category_id \in DOMAIN categories
        /\ categories[transactions[t].category_id].user_id = transactions[t].user_id

\* C19: after every step each stored transaction references an existing
\* category of the transaction's user; add_transaction and edit_transaction
\* with a category id that is missing or another user's store nothing; and
\* delete_category on a category that has transactions deletes nothing.
C19_TransactionsReferenceOwnCategory ==
    [][/\ ReferencesHold'
       /\ \A u \in Users, c \in CategoryIds :
            ~(c \in DOMAIN categories /\ categories[c].user_id = u) =>
                /\ \A susp \in BOOLEAN :
                     AddTransaction(u, "expense", Number(100000), March1, c, susp)
                     => (UNCHANGED <<store, pending>>
                         /\ response'.status \in {"invalid_category", "redirect"})
                /\ \A id \in TransactionIds, susp \in BOOLEAN :
                     EditTransaction(u, id, Number(100000), March1, c, susp)
                     => (UNCHANGED <<store, pending>>
                         /\ response'.status \in {"invalid_category", "not_found"})
       /\ \A u \in Users, c \in CategoryIds :
            (\E t \in DOMAIN transactions : transactions[t].category_id = c) =>
                (DeleteCategory(u, c, FALSE)
                 => (UNCHANGED store
                     /\ response'.status \in {"crash_integrity", "not_found"}))
      ]_vars

\* user 1's request to delete a category that has a transaction has failed, the
\* transaction still references it, and user 2 holds a category of their own
C19_Witness ==
    /\ response = [user |-> 1, status |-> "crash_integrity"]
    /\ pending = NoPending
    /\ \E t \in DOMAIN transactions :
        /\ transactions[t].user_id = 1
        /\ transactions[t].category_id \in DOMAIN categories
    /\ \E c \in DOMAIN categories : categories[c].user_id = 2

---------------------------------------------------------------------------
(* C20 *)

\* an amount that is malformed or not above zero
BadAmount(a) == a.text # "number" \/ a.mills <= 0

\* a date field that names no day of the calendar
BadDate(d) == d # NoDate /\ ~(d[2] \in 1..12 /\ d[3] \in 1..CalendarDays(d[1], d[2]))

\* category c is none of user u's categories of kind k
NoCategoryOfKind(u, c, k) ==
    ~(c \in DOMAIN categories /\ categories[c].user_id = u /\ categories[c].type = k)

\* a budget form that fails a validation, for the budget id being edited (0 for
\* a new one)
BadBudgetForm(u, id, n, a, start, end) ==
    \/ BadAmount(a)
    \/ \A j \in 1..Len(n) : n[j] = " "
    \/ BadDate(start) \/ BadDate(end)
    \/ (end # NoDate /\ DateLT(end, start))
    \/ \E b \in DOMAIN budgets :
        /\ b # id
        /\ budgets[b].user_id = u
        /\ budgets[b].category_name = n
        /\ budgets[b].start_date = start

\* what a handler answers when it turns a form down
Rejections ==
    {"error_decimal", "not_positive", "invalid_format", "invalid_category",
     "empty_name", "end_before_start", "exists"}

Rejected == response'.status \in Rejections /\ UNCHANGED <<store, pending>>

\* C20: an add_transaction, edit_transaction, add_budget or edit_budget request
\* that fails validation (amount malformed or <= 0, malformed date, no such
\* category of the user and kind, empty budget name, end before start, budget
\* key taken) is turned down and leaves the store exactly as it was.
C20_RejectedWritesChangeNothing ==
    [][/\ \A k \in Kinds, a \in FormAmounts, d \in FormDates, c \in CategoryIds :
            (/\ HasCategoryOfType(1, k)
             /\ BadAmount(a) \/ BadDate(d) \/ NoCategoryOfKind(1, c, k)
             /\ AddTransaction(1, k, a, d, c, FALSE)) => Rejected
       /\ \A id \in DOMAIN transactions, a \in FormAmounts, d \in FormDates,
             c \in CategoryIds :
            (/\ BadAmount(a) \/ BadDate(d)
                  \/ NoCategoryOfKind(1, c, transactions[id].type)
             /\ EditTransaction(1, id, a, d, c, FALSE)) => Rejected
       /\ \A n \in FormNames, a \in FormAmounts, start \in FormStarts, end \in FormEnds :
            /\ (/\ HasCategoryOfType(1, "expense")
                /\ BadBudgetForm(1, 0, n, a, start, end)
                /\ AddBudget(1, n, a, start, end, FALSE)) => Rejected
            /\ \A id \in DOMAIN budgets :
                (/\ BadBudgetForm(1, id, n, a, start, end)
                 /\ EditBudget(1, id, n, a, start, end, FALSE)) => Rejected
      ]_vars

\* a form with a malformed amount was turned down with a transaction and a
\* budget stored
C20_Witness ==
    /\ response = [user |-> 1, status |-> "error_decimal"]
    /\ transactions # <<>>
    /\ budgets # <<>>

---------------------------------------------------------------------------
(* C21 *)

\* what the reported month holds of kind expense in category c
ExpensesIn(c) ==
    0 - SignedSum({t \in OfKindInMonth("expense") : transactions[t].category_id = c})

\* the breakdown has category c iff the month holds expenses in it, with their
\* sum as total
BreakdownShows(c) ==
    /\ c \in DOMAIN report.category_data <=> ExpensesIn(c) > 0
    /\ c \in DOMAIN report.category_data =>
        /\ report.category_data[c].name = categories[c].name
        /\ report.category_data[c].total = ExpensesIn(c)
        /\ report.category_data[c].total # 0

\* C21: the category breakdown of a summary has an entry for a category of the
\* user iff the category's transactions of kind expense dated in the selected
\* month sum to more than 0, with that sum as total; so an income category with
\* income only has no entry, and no entry has total 0.
C21_BreakdownIffExpenses ==
    report.view = "summary" =>
        /\ \A c \in DOMAIN categories :
            categories[c].user_id = report.user => BreakdownShows(c)
        /\ DOMAIN report.category_data \subseteq
            {c \in DOMAIN categories : categories[c].user_id = report.user}

\* the same for the categories whose kind is income or expense
C21_BreakdownOfIncomeAndExpenseCategories ==
    report.view = "summary" =>
        /\ \A c \in DOMAIN categories :
            (categories[c].user_id = report.user /\ categories[c].type \in Kinds)
                => BreakdownShows(c)
        /\ DOMAIN report.category_data \subseteq
            {c \in DOMAIN categories : categories[c].user_id = report.user}

====
